---- MODULE Spec2Model ----
(***************************************************************************)
(* The JNI binding of the WeText processor (wetext_jni.cc): five native    *)
(* methods called by Java threads.  Each thread runs one native method at  *)
(* a time; its locals live in frame[t].  The native engine behind          *)
(* processor/wetext_processor_c_api.h owns the sessions and the strings it *)
(* returns.                                                                *)
(*                                                                         *)
(* Spec:     one Java thread drives the binding through any sequence of    *)
(*           calls, with any handle value and any input.                   *)
(* SpecConc: all the threads call normalize, tag and verbalize at once on  *)
(*           one live session.                                             *)
(***************************************************************************)
EXTENDS Integers, Sequences, FiniteSets, TLC

\* Java threads that may be inside the binding at the same time.
NumThreads == 2
\* Addresses at which the engine can place a session.
NumAddrs == 1
\* Width of a pointer and of a jlong, scaled down from 64.
PtrBits == 3

Threads == 1..NumThreads
PtrSpace == 2^PtrBits

\* Session addresses: non-null, in the low and in the high half of the
\* address space (a high address is a negative jlong).
SessionAddrs ==
  {IF i % 2 = 1 THEN PtrSpace - i ELSE i : i \in 1..NumAddrs}

\* Addresses of the strings the engine returns: one call holds at most one.
StrAddrs == 1..NumThreads

\* Java strings are sequences of UTF-16 code units; C strings are sequences
\* of bytes (the terminating NUL is not stored).
Inputs == {<< >>, <<49>>, <<0>>}
\* Further inputs of the single caller: two- and three-byte characters and
\* a surrogate pair.
MoreInputs == {<<233>>, <<97, 49>>, <<19968, 0>>, <<55357, 56832>>}
PathInputs == {<<49>>, <<0>>}
Garbage == <<63>>

TextOps == {"normalize", "tag", "verbalize"}
BufNames == {"tagger", "verbalizer", "text"}

VARIABLES
  frame,      \* frame[t]: the native method thread t runs and its locals
  live,       \* engine: addresses of the sessions created and not destroyed
  destroyed,  \* engine: addresses destroyed and not handed out again since
  heap,       \* engine: heap[a] = <<s>> when the string s is allocated at a
  crashed     \* the process took a fatal fault

vars == <<frame, live, destroyed, heap, crashed>>

-----------------------------------------------------------------------------
(* reinterpret_cast between WetextProcessorHandle and jlong *)

\* A cast through a narrower integer type: the top bit is lost.
ToJlong_narrow(p) == p % (PtrSpace \div 2)

\* reinterpret_cast<jlong>(handle): the same bits read as a signed integer.
ToJlong(p) == IF p >= PtrSpace \div 2 THEN p - PtrSpace ELSE p

\* reinterpret_cast<WetextProcessorHandle>(handle): the same bits read as
\* an address.
ToHandle(j) == j % PtrSpace

\* The jlong values a Java caller can pass: 0 and any address-shaped value,
\* whether or not a session is, or ever was, at that address.
HandleArgs == {0} \cup {ToJlong(a) : a \in SessionAddrs}

-----------------------------------------------------------------------------
(* JNI string functions: Java string <-> modified UTF-8 *)

EncodeChar(c) ==
  IF c >= 1 /\ c <= 127 THEN <<c>>
  ELSE IF c <= 2047 THEN <<192 + (c \div 64), 128 + (c % 64)>>
  ELSE <<224 + (c \div 4096), 128 + ((c \div 64) % 64), 128 + (c % 64)>>

RECURSIVE GetStringUTFChars(_)
GetStringUTFChars(js) ==
  IF js = << >> THEN << >>
  ELSE EncodeChar(Head(js)) \o GetStringUTFChars(Tail(js))

RECURSIVE NewStringUTF(_)
NewStringUTF(bytes) ==
  IF bytes = << >> THEN << >>
  ELSE LET b == Head(bytes) IN
    IF b = 0 THEN << >>
    ELSE IF b >= 192 /\ b < 224 /\ Len(bytes) >= 2
      THEN <<(b - 192) * 64 + (bytes[2] - 128)>>
           \o NewStringUTF(SubSeq(bytes, 3, Len(bytes)))
    ELSE IF b >= 224 /\ b < 240 /\ Len(bytes) >= 3
      THEN <<(b - 224) * 4096 + (bytes[2] - 128) * 64 + (bytes[3] - 128)>>
           \o NewStringUTF(SubSeq(bytes, 4, Len(bytes)))
    ELSE <<b>> \o NewStringUTF(Tail(bytes))

-----------------------------------------------------------------------------
(* The native engine, from its contract *)

\* The grammar files that exist and load.
GrammarFiles == {<<49>>}
Loads(path) == path \in GrammarFiles

IsDigit(b) == b >= 48 /\ b <= 57

\* Tagger: a digit d becomes the tagged span {d}; other bytes pass through.
RECURSIVE wetext_tag(_)
wetext_tag(text) ==
  IF text = << >> THEN << >>
  ELSE IF IsDigit(Head(text))
    THEN <<123, Head(text), 125>> \o wetext_tag(Tail(text))
  ELSE <<Head(text)>> \o wetext_tag(Tail(text))

\* The written form of a tagged digit: 1 is U+4E00.
Spell(d) == IF d = 49 THEN <<228, 184, 128>> ELSE <<d>>

\* Verbalizer: a tagged span {d} becomes its written form; other bytes pass
\* through.
RECURSIVE wetext_verbalize(_)
wetext_verbalize(text) ==
  IF text = << >> THEN << >>
  ELSE IF Len(text) >= 3 /\ text[1] = 123 /\ IsDigit(text[2]) /\ text[3] = 125
    THEN Spell(text[2]) \o wetext_verbalize(SubSeq(text, 4, Len(text)))
  ELSE <<Head(text)>> \o wetext_verbalize(Tail(text))

\* Pipeline: tag, then verbalize.
wetext_normalize(text) == wetext_verbalize(wetext_tag(text))

EngineFn(o, text) ==
  CASE o = "normalize" -> wetext_normalize(text)
    [] o = "tag" -> wetext_tag(text)
    [] o = "verbalize" -> wetext_verbalize(text)

\* The engine allocates the string it returns at the lowest free address.
FreeStrAddrs == {a \in StrAddrs : heap[a] = << >>}
NewStrAddr == CHOOSE a \in FreeStrAddrs : \A b \in FreeStrAddrs : a <= b

\* wetext_free_string(p): p is a string the engine returned.
wetext_free_string(p) == [heap EXCEPT ![p] = << >>]

-----------------------------------------------------------------------------
(* Frames *)

NoPins == [b \in BufNames |-> 0]

IdleFrame ==
  [op |-> "none", pc |-> "idle", handle |-> 0, input |-> << >>,
   input2 |-> << >>, pins |-> NoPins, text |-> << >>, text2 |-> << >>,
   eh |-> 0, result |-> 0, jresult |-> << >>, ret |-> 0,
   src |-> << >>, origin |-> << >>, stale |-> FALSE, ub |-> FALSE]

\* Fields of a frame beyond the locals of the code:
\*   src     <<T>> in a verbalize call whose input is the result of the
\*           caller's preceding tag call on T with the same handle
\*   origin  <<p>> in a call whose handle is the value the caller's
\*           preceding create call returned, p being the engine's handle
\*   stale   the handle names no live session when the call is entered
\*           (in a text call: a destroyed one)
\*   ub      the call's engine call had undefined behaviour

\* A call can be made by a thread that is not inside the binding.
CanCall(t) == ~crashed /\ frame[t].pc \in {"idle", "returned"}

Init ==
  /\ frame = [t \in Threads |-> IdleFrame]
  /\ live = {}
  /\ destroyed = {}
  /\ heap = [a \in StrAddrs |-> << >>]
  /\ crashed = FALSE

-----------------------------------------------------------------------------
(* nativeCreateProcessor *)

\* Entered with two path strings: both are pinned as UTF chars.
nativeCreateProcessor_entry(t, taggerPath, verbalizerPath) ==
  /\ CanCall(t)
  /\ frame' = [frame EXCEPT ![t] =
       [IdleFrame EXCEPT !.op = "create", !.pc = "create",
          !.input = taggerPath, !.input2 = verbalizerPath,
          !.text = GetStringUTFChars(taggerPath),
          !.text2 = GetStringUTFChars(verbalizerPath),
          !.pins = [NoPins EXCEPT !["tagger"] = 1, !["verbalizer"] = 1]]]
  /\ UNCHANGED <<live, destroyed, heap, crashed>>

\* wetext_create_processor: a session at an address no live session has,
\* or null when a grammar fails to load or no address is left.
wetext_create_processor(t, a) ==
  IF Loads(frame[t].text) /\ Loads(frame[t].text2) /\ a # 0
  THEN /\ a \in SessionAddrs \ live
       /\ live' = live \cup {a}
       /\ destroyed' = destroyed \ {a}
  ELSE /\ a = 0
       /\ UNCHANGED <<live, destroyed>>

nativeCreateProcessor_call(t) ==
  /\ ~crashed
  /\ frame[t].pc = "create"
  /\ \E a \in {0} \cup SessionAddrs :
       /\ (a = 0 /\ Loads(frame[t].text) /\ Loads(frame[t].text2))
            => SessionAddrs \ live = {}
       /\ wetext_create_processor(t, a)
       /\ frame' = [frame EXCEPT ![t].eh = a, ![t].pc = "release"]
  /\ UNCHANGED <<heap, crashed>>

\* The tagger pin released twice, the verbalizer pin never.
nativeCreateProcessor_return_twice(t) ==
  /\ ~crashed
  /\ frame[t].pc = "release"
  /\ frame' = [frame EXCEPT
       ![t].pins = [@ EXCEPT !["tagger"] = @ - 2],
       ![t].ret = ToJlong(frame[t].eh),
       ![t].pc = "returned"]
  /\ UNCHANGED <<live, destroyed, heap, crashed>>

\* Both pins are released and the handle is returned as a jlong.
nativeCreateProcessor_return(t) ==
  /\ ~crashed
  /\ frame[t].pc = "release"
  /\ frame' = [frame EXCEPT
       ![t].pins = [@ EXCEPT !["tagger"] = @ - 1, !["verbalizer"] = @ - 1],
       ![t].ret = ToJlong(frame[t].eh),
       ![t].pc = "returned"]
  /\ UNCHANGED <<live, destroyed, heap, crashed>>

-----------------------------------------------------------------------------
(* nativeDestroyProcessor *)

\* No null test: every handle goes on to the engine.
nativeDestroyProcessor_entry_unchecked(t, h) ==
  /\ CanCall(t)
  /\ frame' = [frame EXCEPT ![t] =
       [IdleFrame EXCEPT !.op = "destroy", !.handle = h,
          !.stale = (h # 0 /\ ToHandle(h) \notin live),
          !.pc = "destroy"]]
  /\ UNCHANGED <<live, destroyed, heap, crashed>>

\* The null test: only a non-zero handle goes on to the engine.
nativeDestroyProcessor_entry(t, h) ==
  /\ CanCall(t)
  /\ frame' = [frame EXCEPT ![t] =
       [IdleFrame EXCEPT !.op = "destroy", !.handle = h,
          !.stale = (h # 0 /\ ToHandle(h) \notin live),
          !.pc = IF h # 0 THEN "destroy" ELSE "returned"]]
  /\ UNCHANGED <<live, destroyed, heap, crashed>>

\* wetext_destroy_processor(p): releases the session at p.  When no session
\* is at p the behaviour is undefined: a fault, or no visible effect.
nativeDestroyProcessor_call(t) ==
  /\ ~crashed
  /\ frame[t].pc = "destroy"
  /\ LET p == ToHandle(frame[t].handle) IN
       IF p \in live
       THEN /\ live' = live \ {p}
            /\ destroyed' = destroyed \cup {p}
            /\ frame' = [frame EXCEPT ![t].pc = "returned"]
            /\ UNCHANGED crashed
       ELSE /\ frame' = [frame EXCEPT ![t].pc = "returned", ![t].ub = TRUE]
            /\ crashed' \in BOOLEAN
            /\ UNCHANGED <<live, destroyed>>
  /\ UNCHANGED heap

-----------------------------------------------------------------------------
(* nativeNormalize, nativeTag, nativeVerbalize: the same four steps *)

Origin(t, h) ==
  IF frame[t].op = "create" /\ frame[t].pc = "returned" /\ frame[t].ret = h
  THEN <<frame[t].eh>>
  ELSE << >>

\* The result of the caller's preceding tag call, which the caller may pass
\* on to verbalize.
Tagged(t) ==
  IF frame[t].op = "tag" /\ frame[t].pc = "returned"
  THEN {frame[t].jresult}
  ELSE {}

ChainSrc(t, o, h, s) ==
  IF /\ o = "verbalize"
     /\ frame[t].op = "tag" /\ frame[t].pc = "returned"
     /\ frame[t].handle = h /\ h # 0 /\ ~frame[t].ub
     /\ frame[t].jresult = s
  THEN <<frame[t].input>>
  ELSE << >>

\* The frame of a call that returns the empty string at the null test.
NullFrame(t, o, h, s) ==
  [IdleFrame EXCEPT !.op = o, !.handle = h, !.input = s,
     !.origin = Origin(t, h),
     !.jresult = NewStringUTF(<< >>), !.pc = "returned"]

\* The frame of a call that has pinned its input and is about to call the
\* engine.
PinnedFrame(t, o, h, s) ==
  [IdleFrame EXCEPT !.op = o, !.handle = h, !.input = s,
     !.origin = Origin(t, h),
     !.src = ChainSrc(t, o, h, s),
     !.stale = (ToHandle(h) \in destroyed),
     !.text = GetStringUTFChars(s),
     !.pins = [NoPins EXCEPT !["text"] = 1],
     !.pc = "call"]

\* The null test, then GetStringUTFChars(input).
TextEntry(t, o, h, s) ==
  /\ CanCall(t)
  /\ frame' = [frame EXCEPT ![t] =
       IF h = 0 THEN NullFrame(t, o, h, s) ELSE PinnedFrame(t, o, h, s)]
  /\ UNCHANGED <<live, destroyed, heap, crashed>>

\* No null test.
TextEntryUnchecked(t, o, h, s) ==
  /\ CanCall(t)
  /\ frame' = [frame EXCEPT ![t] = PinnedFrame(t, o, h, s)]
  /\ UNCHANGED <<live, destroyed, heap, crashed>>

\* result = wetext_<o>(handle, text).  With a session at the handle the engine
\* returns a new string; with none the behaviour is undefined: a fault, a
\* null result, or a string of garbage.
TextCall(t, o) ==
  /\ ~crashed
  /\ frame[t].pc = "call"
  /\ LET p == ToHandle(frame[t].handle) IN
       IF p \in live /\ FreeStrAddrs # {}
       THEN /\ heap' = [heap EXCEPT ![NewStrAddr] = <<EngineFn(o, frame[t].text)>>]
            /\ frame' = [frame EXCEPT ![t].result = NewStrAddr,
                                      ![t].pc = "copy"]
            /\ UNCHANGED crashed
       ELSE \/ /\ crashed' = TRUE
               /\ frame' = [frame EXCEPT ![t].ub = TRUE]
               /\ UNCHANGED heap
            \/ /\ frame' = [frame EXCEPT ![t].ub = TRUE, ![t].result = 0,
                                         ![t].pc = "copy"]
               /\ UNCHANGED <<heap, crashed>>
            \/ /\ FreeStrAddrs # {}
               /\ heap' = [heap EXCEPT ![NewStrAddr] = <<Garbage>>]
               /\ frame' = [frame EXCEPT ![t].ub = TRUE,
                                         ![t].result = NewStrAddr,
                                         ![t].pc = "copy"]
               /\ UNCHANGED crashed
  /\ UNCHANGED <<live, destroyed>>

\* result is one static variable of the binding: the calls that are about
\* to read their result read the newest one.
TextCallStatic(t, o) ==
  /\ ~crashed
  /\ frame[t].pc = "call"
  /\ FreeStrAddrs # {}
  /\ heap' = [heap EXCEPT ![NewStrAddr] = <<EngineFn(o, frame[t].text)>>]
  /\ frame' = [u \in Threads |->
       IF u = t
       THEN [frame[u] EXCEPT !.result = NewStrAddr, !.pc = "copy"]
       ELSE IF frame[u].pc \in {"copy", "free"}
       THEN [frame[u] EXCEPT !.result = NewStrAddr]
       ELSE frame[u]]
  /\ UNCHANGED <<live, destroyed, crashed>>

\* The bytes at a result pointer: the string when it is allocated, garbage
\* when it was freed.
Deref(p) == IF heap[p] # << >> THEN heap[p][1] ELSE Garbage

\* ReleaseStringUTFChars(input, text); jresult = NewStringUTF(result ?
\* result : ""); the test of result.
TextCopy(t) ==
  /\ ~crashed
  /\ frame[t].pc = "copy"
  /\ frame' = [frame EXCEPT
       ![t].pins = [@ EXCEPT !["text"] = @ - 1],
       ![t].jresult = NewStringUTF(IF frame[t].result # 0
                                   THEN Deref(frame[t].result) ELSE << >>),
       ![t].pc = IF frame[t].result # 0 THEN "free" ELSE "returned"]
  /\ UNCHANGED <<live, destroyed, heap, crashed>>

\* No test of result: wetext_free_string is reached with a null result too.
TextCopyUntested(t) ==
  /\ ~crashed
  /\ frame[t].pc = "copy"
  /\ frame' = [frame EXCEPT
       ![t].pins = [@ EXCEPT !["text"] = @ - 1],
       ![t].jresult = NewStringUTF(IF frame[t].result # 0
                                   THEN Deref(frame[t].result) ELSE << >>),
       ![t].pc = "free"]
  /\ UNCHANGED <<live, destroyed, heap, crashed>>

\* Return without wetext_free_string.
TextReturnUnfreed(t) ==
  /\ ~crashed
  /\ frame[t].pc = "free"
  /\ frame' = [frame EXCEPT ![t].pc = "returned", ![t].result = 0]
  /\ UNCHANGED <<live, destroyed, heap, crashed>>

\* wetext_free_string(result); return jresult: the local result goes out of
\* scope.  Freeing what is not allocated is a fault.
TextFree(t) ==
  /\ ~crashed
  /\ frame[t].pc = "free"
  /\ frame' = [frame EXCEPT ![t].pc = "returned", ![t].result = 0]
  /\ IF frame[t].result # 0 /\ heap[frame[t].result] # << >>
     THEN heap' = wetext_free_string(frame[t].result) /\ UNCHANGED crashed
     ELSE crashed' = TRUE /\ UNCHANGED heap
  /\ UNCHANGED <<live, destroyed>>

nativeNormalize_entry(t, h, s) == TextEntry(t, "normalize", h, s)
nativeNormalize_call_tag(t) ==
  frame[t].op = "normalize" /\ TextCall(t, "tag")
nativeNormalize_call(t) ==
  frame[t].op = "normalize" /\ TextCall(t, "normalize")
nativeNormalize_copy_untested(t) ==
  frame[t].op = "normalize" /\ TextCopyUntested(t)
nativeNormalize_copy(t) == frame[t].op = "normalize" /\ TextCopy(t)
nativeNormalize_free(t) == frame[t].op = "normalize" /\ TextFree(t)

nativeTag_entry_unchecked(t, h, s) == TextEntryUnchecked(t, "tag", h, s)
nativeTag_entry(t, h, s) == TextEntry(t, "tag", h, s)
nativeTag_call_static(t) == frame[t].op = "tag" /\ TextCallStatic(t, "tag")
nativeTag_call(t) == frame[t].op = "tag" /\ TextCall(t, "tag")
nativeTag_copy(t) == frame[t].op = "tag" /\ TextCopy(t)
nativeTag_free(t) == frame[t].op = "tag" /\ TextFree(t)

nativeVerbalize_entry(t, h, s) == TextEntry(t, "verbalize", h, s)
nativeVerbalize_call(t) ==
  frame[t].op = "verbalize" /\ TextCall(t, "verbalize")
nativeVerbalize_copy(t) == frame[t].op = "verbalize" /\ TextCopy(t)
nativeVerbalize_free_leak(t) ==
  frame[t].op = "verbalize" /\ TextReturnUnfreed(t)
nativeVerbalize_free(t) == frame[t].op = "verbalize" /\ TextFree(t)

-----------------------------------------------------------------------------
(* One caller: any sequence of calls *)

Caller == {1}
AllInputs == Inputs \cup MoreInputs

Next ==
  \E t \in Caller :
    \/ \E p1 \in PathInputs, p2 \in PathInputs :
         nativeCreateProcessor_entry(t, p1, p2)
    \/ nativeCreateProcessor_call(t)
    \/ nativeCreateProcessor_return(t)
    \/ \E h \in HandleArgs : nativeDestroyProcessor_entry(t, h)
    \/ nativeDestroyProcessor_call(t)
    \/ \E h \in HandleArgs, s \in AllInputs : nativeNormalize_entry(t, h, s)
    \/ nativeNormalize_call(t)
    \/ nativeNormalize_copy(t)
    \/ nativeNormalize_free(t)
    \/ \E h \in HandleArgs, s \in AllInputs : nativeTag_entry(t, h, s)
    \/ nativeTag_call(t)
    \/ nativeTag_copy(t)
    \/ nativeTag_free(t)
    \/ \E h \in HandleArgs, s \in AllInputs \cup Tagged(t) :
         nativeVerbalize_entry(t, h, s)
    \/ nativeVerbalize_call(t)
    \/ nativeVerbalize_copy(t)
    \/ nativeVerbalize_free(t)

Spec == Init /\ [][Next]_vars

-----------------------------------------------------------------------------
(* All threads at once on one live session *)

\* The state after thread 1 has created a session from two grammar files
\* that load.
InitConc ==
  /\ \E a \in SessionAddrs, p1 \in PathInputs, p2 \in PathInputs :
       /\ Loads(GetStringUTFChars(p1)) /\ Loads(GetStringUTFChars(p2))
       /\ live = {a}
       /\ frame = [t \in Threads |->
            IF t = 1
            THEN [IdleFrame EXCEPT !.op = "create", !.pc = "returned",
                    !.input = p1, !.input2 = p2,
                    !.text = GetStringUTFChars(p1),
                    !.text2 = GetStringUTFChars(p2),
                    !.eh = a, !.ret = ToJlong(a)]
            ELSE IdleFrame]
  /\ destroyed = {}
  /\ heap = [a \in StrAddrs |-> << >>]
  /\ crashed = FALSE

\* The handles of the live sessions.
LiveArgs == {ToJlong(a) : a \in live}

NextConc ==
  \E t \in Threads :
    \/ \E h \in LiveArgs, s \in Inputs : nativeNormalize_entry(t, h, s)
    \/ nativeNormalize_call(t)
    \/ nativeNormalize_copy(t)
    \/ nativeNormalize_free(t)
    \/ \E h \in LiveArgs, s \in Inputs : nativeTag_entry(t, h, s)
    \/ nativeTag_call(t)
    \/ nativeTag_copy(t)
    \/ nativeTag_free(t)
    \/ \E h \in LiveArgs, s \in Inputs \cup Tagged(t) :
         nativeVerbalize_entry(t, h, s)
    \/ nativeVerbalize_call(t)
    \/ nativeVerbalize_copy(t)
    \/ nativeVerbalize_free(t)

SpecConc == InitConc /\ [][NextConc]_vars

-----------------------------------------------------------------------------
(* Properties *)

IsText(t) == frame[t].op \in TextOps

\* What a call of operation o on input s returns on a live session.
Expected(o, s) == NewStringUTF(EngineFn(o, GetStringUTFChars(s)))

\* C1: a normalize, tag or verbalize call with handle 0 returns the empty
\* string at once: it is never at the engine call, it holds no result
\* pointer and it has pinned no UTF chars.
C1_NullHandleReturnsEmpty ==
  \A t \in Threads :
    (IsText(t) /\ frame[t].handle = 0) =>
      /\ frame[t].pc = "returned"
      /\ frame[t].jresult = << >>
      /\ frame[t].result = 0
      /\ frame[t].pins = NoPins
      /\ frame[t].text = << >>
      /\ ~frame[t].ub
      /\ \A a \in StrAddrs : heap[a] = << >>

C1_Witness ==
  \E t \in Threads :
    /\ frame[t].op = "tag" /\ frame[t].handle = 0
    /\ frame[t].pc = "returned" /\ frame[t].input # << >>
    /\ live # {}

\* C2: a destroy call with handle 0 returns at the null test: the step that
\* enters it ends it, with the engine's sessions as they were, and no
\* destroy call with handle 0 is ever at the engine call.
C2_DestroyNullIsNoOp ==
  [][\A t \in Threads :
       (frame'[t].op = "destroy" /\ frame'[t].handle = 0) =>
         /\ frame'[t].pc = "returned"
         /\ ~frame'[t].ub
         /\ (frame'[t] # frame[t] =>
               /\ live' = live
               /\ destroyed' = destroyed
               /\ crashed' = crashed)]_vars

C2_Witness ==
  \E t \in Threads :
    /\ frame[t].op = "destroy" /\ frame[t].handle = 0
    /\ frame[t].pc = "returned"
    /\ live # {}

\* C3: a normalize, tag or verbalize call entered with the handle of a
\* destroyed session makes no engine call on it, returns the empty string,
\* and the process does not crash.
C3_DestroyedHandleIsRejected ==
  \A t \in Threads :
    (IsText(t) /\ frame[t].stale) =>
      /\ ~frame[t].ub
      /\ ~crashed
      /\ (frame[t].pc = "returned" => frame[t].jresult = << >>)

\* C4: a destroy call entered with the handle of a session that is already
\* destroyed does not invoke wetext_destroy_processor on it again: no
\* session is released twice, and the process does not crash.
C4_DestroyReleasesOnce ==
  \A t \in Threads :
    (frame[t].op = "destroy" /\ ToHandle(frame[t].handle) \in destroyed) =>
      (frame[t].stale => (~frame[t].ub /\ ~crashed))

\* C5: a create call returns 0 exactly when the engine returned null, which
\* it does when a grammar fails to load; a normalize call whose handle is
\* that 0 returns the empty string; a non-zero return value is the engine's
\* handle, and a call that is given it passes the engine that handle.
C5_CreateReturnsHandle ==
  \A t \in Threads :
    /\ (frame[t].op = "create" /\ frame[t].pc = "returned") =>
         /\ (~(Loads(GetStringUTFChars(frame[t].input))
               /\ Loads(GetStringUTFChars(frame[t].input2)))
               => frame[t].ret = 0)
         /\ (frame[t].eh = 0 <=> frame[t].ret = 0)
         /\ ToHandle(frame[t].ret) = frame[t].eh
    /\ (frame[t].op = "normalize" /\ frame[t].origin = <<0>>) =>
         /\ frame[t].pc = "returned"
         /\ frame[t].jresult = << >>
    /\ (frame[t].origin # << >> /\ frame[t].origin # <<0>>) =>
         /\ frame[t].handle # 0
         /\ <<ToHandle(frame[t].handle)>> = frame[t].origin
         /\ (IsText(t) => frame[t].pc # "returned" \/ ~frame[t].ub)

C5_Witness ==
  \E t \in Threads :
    /\ frame[t].op = "normalize" /\ frame[t].origin = <<0>>
    /\ frame[t].pc = "returned" /\ frame[t].input # << >>

\* C6: every string the engine has returned and that is still allocated is
\* held by exactly one call that is between its engine call and its free; a
\* call about to free holds a non-null, still allocated string whose bytes
\* are already in its Java result; nothing is freed twice.
C6_StringsFreedOnce ==
  /\ \A a \in StrAddrs :
       heap[a] # << >> =>
         \E t \in Threads :
           /\ frame[t].result = a
           /\ frame[t].pc \in {"copy", "free"}
           /\ \A u \in Threads \ {t} : frame[u].result # a
  /\ \A t \in Threads :
       frame[t].pc = "free" =>
         /\ frame[t].result # 0
         /\ heap[frame[t].result] # << >>
         /\ frame[t].jresult = NewStringUTF(heap[frame[t].result][1])
  /\ \A t \in Threads :
       frame[t].pc \in {"idle", "returned"} => frame[t].result = 0
  /\ ~crashed

C6_Witness ==
  \E t \in Threads :
    /\ IsText(t) /\ frame[t].handle # 0
    /\ frame[t].pc = "returned" /\ frame[t].jresult # << >>
    /\ \A a \in StrAddrs : heap[a] = << >>

\* C7: on a live handle h, verbalize(h, tag(h, T)) returns what
\* normalize(h, T) returns.
C7_PipelineComposition ==
  \A t \in Threads, u \in Threads :
    ( /\ frame[t].op = "normalize" /\ frame[t].pc = "returned"
      /\ frame[t].handle # 0 /\ ~frame[t].ub
      /\ frame[u].op = "verbalize" /\ frame[u].pc = "returned"
      /\ frame[u].handle = frame[t].handle /\ ~frame[u].ub
      /\ frame[u].src = <<frame[t].input>> )
    => frame[u].jresult = frame[t].jresult

C7_Witness ==
  \E t \in Threads, u \in Threads :
    /\ frame[t].op = "normalize" /\ frame[t].pc = "returned"
    /\ frame[t].handle # 0 /\ ~frame[t].ub
    /\ frame[u].op = "verbalize" /\ frame[u].pc = "returned"
    /\ frame[u].handle = frame[t].handle /\ ~frame[u].ub
    /\ frame[u].src = <<frame[t].input>>
    /\ frame[t].input = <<49>>
    /\ frame[u].jresult = <<19968>>

\* C8: whatever the interleaving, two calls never hold the same result
\* pointer, the string a call holds is the engine's result for its own
\* input, and the Java string it returns is made from that string.
C8_CallsAreIndependent ==
  /\ \A t \in Threads, u \in Threads :
       (t # u /\ frame[t].result # 0) => frame[t].result # frame[u].result
  /\ \A t \in Threads :
       (IsText(t) /\ frame[t].handle # 0 /\ ~frame[t].ub) =>
         /\ (frame[t].pc \in {"copy", "free"} =>
               /\ frame[t].result # 0
               /\ heap[frame[t].result] =
                    <<EngineFn(frame[t].op, GetStringUTFChars(frame[t].input))>>)
         /\ (frame[t].pc \in {"free", "returned"} =>
               frame[t].jresult = Expected(frame[t].op, frame[t].input))

C8_Witness ==
  \E t \in Threads, u \in Threads :
    /\ t # u /\ IsText(t) /\ IsText(u)
    /\ frame[t].handle # 0 /\ frame[u].handle = frame[t].handle
    /\ frame[t].input # frame[u].input
    /\ frame[t].pc = "free" /\ frame[u].pc = "copy"
    /\ frame[t].jresult # << >>

\* C9: a call with a non-zero handle whose engine call returned null
\* returns the empty string without freeing anything, and no call is ever
\* about to free a null pointer.
C9_NullResultReturnsEmpty ==
  [][\A t \in Threads :
       /\ (frame'[t].pc = "free" => frame'[t].result # 0)
       /\ ( /\ IsText(t) /\ frame[t].handle # 0
            /\ frame[t].pc = "copy" /\ frame[t].result = 0
            /\ frame'[t] # frame[t] )
          => /\ frame'[t].pc = "returned"
             /\ frame'[t].jresult = << >>
             /\ heap' = heap
             /\ crashed' = crashed]_vars

C9_Witness ==
  \E t \in Threads :
    /\ IsText(t) /\ frame[t].handle # 0 /\ frame[t].ub
    /\ frame[t].pc = "returned" /\ frame[t].result = 0
    /\ frame[t].jresult = << >> /\ frame[t].input # << >>
    /\ ~crashed

\* C10: a call holds each pin it took, once, from its entry until its
\* engine call has returned, and none from then to its return: create holds
\* the tagger and the verbalizer pin, the text calls the text pin; a thread
\* outside a call holds no pin.
C10_PinsReleased ==
  \A t \in Threads :
    /\ frame[t].pc \in {"idle", "returned", "free", "destroy"} =>
         frame[t].pins = NoPins
    /\ frame[t].pc \in {"create", "release"} =>
         frame[t].pins = [NoPins EXCEPT !["tagger"] = 1, !["verbalizer"] = 1]
    /\ frame[t].pc \in {"call", "copy"} =>
         frame[t].pins = [NoPins EXCEPT !["text"] = 1]

C10_Witness ==
  \E t \in Threads :
    /\ frame[t].op = "create" /\ frame[t].pc = "returned"
    /\ frame[t].eh # 0 /\ frame[t].pins = NoPins

====
